---- MODULE Spec2Model ----
(***************************************************************************)
(* A model of obsidian-sqlite-sync's persistent store adapter.             *)
(*                                                                         *)
(*   - the statement builders of db.sql.js, as operators that emit         *)
(*     statements carrying SQL literals (escaped text);                    *)
(*   - the engine (one sqlite3 process per execute call), as operators     *)
(*     that decode the literals and apply each statement to the store;     *)
(*   - the adapter: initialize / initializeDatabase / createNewDatabase /  *)
(*     upgradeDatabase / execute, and the mutating operations updateNote,  *)
(*     deleteNote and updateLastOpened, as coroutines that spawn one       *)
(*     process per command and resume on its close event or its timer.     *)
(*                                                                         *)
(* Text is a sequence of one-character strings.                            *)
(***************************************************************************)
EXTENDS Integers, Sequences, FiniteSets, TLC

VARIABLES
    db,             \* the store file
    isInitialized,  \* SQLiteAdapter.isInitialized
    ops,            \* the calls made on the adapter, in call order
    inOrder,        \* no promise has settled while an earlier call's was pending
    failures,       \* number of engine anomalies (failed or hung statements) so far
    db0             \* the store file as it was when the adapter was constructed

vars == <<db, isInitialized, ops, inOrder, failures, db0>>

----------------------------------------------------------------------------
(* Bounds of the model.                                                    *)

MaxOps == 2
MaxFailures == 1
MaxLen == 2

----------------------------------------------------------------------------
(* Text helpers.                                                           *)

Quote == "'"
Hash == "#"
DQuote == "\""
Space == " "

\* The absent value of a text column.
NULL == <<"NULL">>
\* The absent value of an integer column.
NullInt == 0 - 1

UpperOf == [c \in {"a", "b", "k", "v", "x", "y", "i"} |->
              CASE c = "a" -> "A" [] c = "b" -> "B" [] c = "k" -> "K"
                [] c = "v" -> "V" [] c = "x" -> "X" [] c = "y" -> "Y"
                [] c = "i" -> "I"]

LowerLetters == DOMAIN UpperOf
UpperLetters == {UpperOf[c] : c \in LowerLetters}
DigitChars == {"0", "1", "2", "3", "4", "5", "6", "7", "8", "9"}

toLowerCaseChar(c) ==
    IF c \in UpperLetters
    THEN CHOOSE l \in LowerLetters : UpperOf[l] = c
    ELSE c

toLowerCase(s) == [i \in 1..Len(s) |-> toLowerCaseChar(s[i])]

startsWith(s, c) == Len(s) > 0 /\ s[1] = c

slice1(s) == SubSeq(s, 2, Len(s))

\* No escaping at all.
escapeSQLString_None(str) == str

RECURSIVE escapeSQLString(_)
escapeSQLString(str) ==
    IF str = <<>> THEN <<>>
    ELSE IF Head(str) = Quote
         THEN <<Quote, Quote>> \o escapeSQLString(Tail(str))
         ELSE <<Head(str)>> \o escapeSQLString(Tail(str))

\* JSON.stringify of a string value: the text between double quotes.
JSONStringify(value) == <<DQuote>> \o value \o <<DQuote>>

\* /[^\p{L}\p{N}\s\-]/ : what cleanTextForSearch keeps.
IsKept(c) == c \in LowerLetters \cup UpperLetters \cup DigitChars \cup {Space, "-"}

RECURSIVE KeepOnly(_)
KeepOnly(s) ==
    IF s = <<>> THEN <<>>
    ELSE IF IsKept(Head(s)) THEN <<Head(s)>> \o KeepOnly(Tail(s))
         ELSE KeepOnly(Tail(s))

\* The non-empty words of a text, split at whitespace.
RECURSIVE WordsOf(_, _)
WordsOf(s, cur) ==
    IF s = <<>> THEN (IF cur = <<>> THEN <<>> ELSE <<cur>>)
    ELSE IF Head(s) = Space
         THEN (IF cur = <<>> THEN <<>> ELSE <<cur>>) \o WordsOf(Tail(s), <<>>)
         ELSE WordsOf(Tail(s), Append(cur, Head(s)))

RECURSIVE JoinWords(_)
JoinWords(ws) ==
    IF ws = <<>> THEN <<>>
    ELSE IF Len(ws) = 1 THEN ws[1]
         ELSE ws[1] \o <<Space>> \o JoinWords(Tail(ws))

\* The words of the stopword list (swe) that the modelled alphabet can spell.
Stopwords == { <<"i">> }

RECURSIVE removeStopwords(_)
removeStopwords(ws) ==
    IF ws = <<>> THEN <<>>
    ELSE IF Head(ws) \in Stopwords THEN removeStopwords(Tail(ws))
         ELSE <<Head(ws)>> \o removeStopwords(Tail(ws))

cleanTextForSearch(text) ==
    JoinWords(removeStopwords(WordsOf(KeepOnly(toLowerCase(text)), <<>>)))

----------------------------------------------------------------------------
(* Decimal text of integers, as the engine prints them and parseInt reads. *)

DigitOf == [d \in 0..9 |->
              CASE d = 0 -> "0" [] d = 1 -> "1" [] d = 2 -> "2" [] d = 3 -> "3"
                [] d = 4 -> "4" [] d = 5 -> "5" [] d = 6 -> "6" [] d = 7 -> "7"
                [] d = 8 -> "8" [] d = 9 -> "9"]

RECURSIVE Decimal(_)
Decimal(n) ==
    IF n < 10 THEN <<DigitOf[n]>>
    ELSE Decimal(n \div 10) \o <<DigitOf[n % 10]>>

ValueOfDigit(c) == CHOOSE d \in 0..9 : DigitOf[d] = c

\* parseInt: the leading digits, NaN (here -1) when there are none.
RECURSIVE ParseDigits(_, _)
ParseDigits(s, acc) ==
    IF s = <<>> \/ Head(s) \notin DigitChars THEN acc
    ELSE ParseDigits(Tail(s), 10 * acc + ValueOfDigit(Head(s)))

parseInt_NaN(s) == NullInt

parseInt(s) ==
    IF s = <<>> \/ Head(s) \notin DigitChars THEN NullInt
    ELSE ParseDigits(s, 0)

----------------------------------------------------------------------------
(* db.sql.js: version constants, DDL scripts and the migration registry.   *)
(* A script is a sequence of statements; a statement is a record whose     *)
(* text fields are SQL literals (the characters between the quotes).       *)

CURRENT_VERSION == 20
MIN_MIGRATION_VERSION == 18

checkVersionTableExists == << [k |-> "SelectVersionTable"] >>

updateVersion ==
    << [k |-> "CreateVersionTableIfNotExists"],
       [k |-> "InsertOrReplaceVersion", id |-> 1, version |-> CURRENT_VERSION] >>

getVersion == << [k |-> "SelectVersion"] >>

createDatabase ==
    << [k |-> "CreateTable", name |-> "note"],
       [k |-> "CreateTable", name |-> "tag"],
       [k |-> "CreateTable", name |-> "note_tag"],
       [k |-> "CreateTable", name |-> "note_frontmatter"] >>

\* The registry: version -> script; a version without a script maps to <<>>.
MigrateVersions == {10, 11, 12, 20}

\* A registry whose gap comes after a step: 19 is there, 20 is not.
migrate_GapAfterStep(v) ==
    IF v = 19
    THEN << [k |-> "AlterAddColumn", name |-> "note", column |-> "timestamp"] >>
    ELSE << >>

migrate(v) ==
    CASE v = 10 -> << [k |-> "AlterAddColumn", name |-> "some_table", column |-> "new_column"] >>
      [] v = 11 -> << [k |-> "CreateTable", name |-> "new_table"] >>
      [] v = 12 -> << [k |-> "AlterAddColumn", name |-> "new_table", column |-> "timestamp"] >>
      [] v = 20 -> << [k |-> "AlterAddColumn", name |-> "note", column |-> "timestamp"] >>
      [] OTHER -> << >>

----------------------------------------------------------------------------
(* db.sql.js: the statement builders. The argument is one record or an     *)
(* array of records: [array |-> FALSE, item |-> r] or                      *)
(* [array |-> TRUE, items |-> <<r1, ...>>].                                *)

AsArray(fileInfoArray) ==
    IF fileInfoArray.array THEN fileInfoArray.items ELSE << fileInfoArray.item >>

\* Only the rows of the first record.
Flat_First(seqs) == IF seqs = <<>> THEN <<>> ELSE Head(seqs)

RECURSIVE Flat(_)
Flat(seqs) == IF seqs = <<>> THEN <<>> ELSE Head(seqs) \o Flat(Tail(seqs))

StripMarker(tag) == IF startsWith(tag, Hash) THEN slice1(tag) ELSE tag

TagRow(fileInfo, tag0) ==
    LET path == escapeSQLString(fileInfo.path)
        tag  == escapeSQLString(StripMarker(tag0))
    IN  [note_path |-> path, tag_name |-> tag, tag_name_lower |-> toLowerCase(tag)]

getUpdateTagsSql_NoDelete(fileInfoArray) ==
    LET arr  == AsArray(fileInfoArray)
        tags == Flat([i \in 1..Len(arr) |->
                       [j \in 1..Len(arr[i].tags) |-> TagRow(arr[i], arr[i].tags[j])]])
    IN  IF Len(tags) > 0 THEN << [k |-> "InsertTags", rows |-> tags] >> ELSE << >>

getUpdateTagsSql(fileInfoArray) ==
    LET arr      == AsArray(fileInfoArray)
        allPaths == [i \in 1..Len(arr) |-> escapeSQLString(arr[i].path)]
        tags     == Flat([i \in 1..Len(arr) |->
                       [j \in 1..Len(arr[i].tags) |-> TagRow(arr[i], arr[i].tags[j])]])
        insertSQL == IF Len(tags) > 0
                     THEN << [k |-> "InsertTags", rows |-> tags] >>
                     ELSE << >>
    IN  << [k |-> "DeleteTags", paths |-> allPaths] >> \o insertSQL

NoteRow(fileInfo) ==
    [path          |-> escapeSQLString(fileInfo.path),
     title         |-> escapeSQLString(fileInfo.title),
     title_lower   |-> escapeSQLString(toLowerCase(fileInfo.title)),
     content_lower |-> cleanTextForSearch(fileInfo.content),
     created       |-> fileInfo.created,
     last_modified |-> fileInfo.last_modified]

getUpdateNoteSql(fileInfoArray) ==
    LET arr    == AsArray(fileInfoArray)
        values == [i \in 1..Len(arr) |-> NoteRow(arr[i])]
    IN  << [k |-> "UpsertNote", rows |-> values] >>

\* fileInfo.frontmatter is the sequence of Object.entries: <<key, value>> pairs.
FrontmatterRow(fileInfo, entry) ==
    [note_path               |-> escapeSQLString(fileInfo.path),
     frontmatter_name        |-> escapeSQLString(entry[1]),
     frontmatter_value       |-> escapeSQLString(JSONStringify(entry[2])),
     frontmatter_value_lower |-> escapeSQLString(toLowerCase(JSONStringify(entry[2])))]

getUpdateFrontmatterSql_AlwaysInsert(fileInfoArray) ==
    LET arr      == AsArray(fileInfoArray)
        allPaths == [i \in 1..Len(arr) |-> escapeSQLString(arr[i].path)]
        frontmatter == Flat([i \in 1..Len(arr) |->
                         [j \in 1..Len(arr[i].frontmatter) |->
                            FrontmatterRow(arr[i], arr[i].frontmatter[j])]])
    IN  << [k |-> "DeleteFrontmatter", paths |-> allPaths],
           [k |-> "InsertFrontmatter", rows |-> frontmatter] >>

getUpdateFrontmatterSql(fileInfoArray) ==
    LET arr      == AsArray(fileInfoArray)
        allPaths == [i \in 1..Len(arr) |-> escapeSQLString(arr[i].path)]
        frontmatter == Flat([i \in 1..Len(arr) |->
                         [j \in 1..Len(arr[i].frontmatter) |->
                            FrontmatterRow(arr[i], arr[i].frontmatter[j])]])
        insertSQL == IF Len(frontmatter) > 0
                     THEN << [k |-> "InsertFrontmatter", rows |-> frontmatter] >>
                     ELSE << >>
    IN  << [k |-> "DeleteFrontmatter", paths |-> allPaths] >> \o insertSQL

getDeleteNoteSql(path) ==
    << [k |-> "DeleteNote", path |-> escapeSQLString(path)] >>

\* An UPDATE whose WHERE names another row.
getUpdateLastOpenedSql_OtherRow(path, now) ==
    << [k |-> "UpdateLastOpened", path |-> <<"b">>, now |-> now] >>

getUpdateLastOpenedSql(path, now) ==
    << [k |-> "UpdateLastOpened", path |-> escapeSQLString(path), now |-> now] >>

----------------------------------------------------------------------------
(* The engine: what one sqlite3 process does with one statement.           *)
(*                                                                         *)
(* db.file      the store file exists                                      *)
(* db.tables    names of the tables present                                *)
(* db.columns   <<table, column>> pairs added by ALTER TABLE               *)
(* db.version   rows of version(id, version)                               *)
(* db.note      rows of note                                               *)
(* db.note_tag  rows of note_tag                                           *)
(* db.note_frontmatter  rows of note_frontmatter, a bag: row -> count      *)
(*              (frontmatter_name_lower is never supplied, so its key      *)
(*              never conflicts and equal rows can repeat)                 *)

\* The text a literal denotes: '' is one quote, a lone quote ends the literal.
RECURSIVE DecodeLiteral(_)
DecodeLiteral(lit) ==
    IF lit = <<>> THEN <<>>
    ELSE IF Head(lit) = Quote
         THEN IF Len(lit) >= 2 /\ lit[2] = Quote
              THEN <<Quote>> \o DecodeLiteral(SubSeq(lit, 3, Len(lit)))
              ELSE <<>>
         ELSE <<Head(lit)>> \o DecodeLiteral(Tail(lit))

\* sqlite3 prints each result row on a line of its own.
Newline == "\n"
Line(text) == text \o <<Newline>>

\* String.prototype.trim
IsSpace(c) == c \in {Space, Newline}
RECURSIVE trimStart(_)
trimStart(s) ==
    IF s # <<>> /\ IsSpace(Head(s)) THEN trimStart(Tail(s)) ELSE s
RECURSIVE trimEnd(_)
trimEnd(s) ==
    IF s # <<>> /\ IsSpace(s[Len(s)]) THEN trimEnd(SubSeq(s, 1, Len(s) - 1)) ELSE s
trim_Identity(s) == s
trim(s) == trimEnd(trimStart(s))

\* JSON values: what JSON.parse returns and what `sqlite3 -json` prints.
\* An object is the sequence of its <<key, value>> members.
JNum(n) == [t |-> "number", v |-> n]
JStr(s) == [t |-> "string", v |-> s]
JArr(xs) == [t |-> "array", v |-> xs]
JObj(ms) == [t |-> "object", v |-> ms]

JBad == [ok |-> FALSE, next |-> 0, value |-> JNum(0)]
JOk(value, next) == [ok |-> TRUE, next |-> next, value |-> value]

RECURSIVE skipWs(_, _)
skipWs(s, i) == IF i <= Len(s) /\ IsSpace(s[i]) THEN skipWs(s, i + 1) ELSE i

\* The index of the double quote that closes a string, 0 when there is none.
RECURSIVE closingQuote(_, _)
closingQuote(s, i) ==
    IF i > Len(s) THEN 0
    ELSE IF s[i] = DQuote THEN i ELSE closingQuote(s, i + 1)

RECURSIVE endOfDigits(_, _)
endOfDigits(s, i) ==
    IF i <= Len(s) /\ s[i] \in DigitChars THEN endOfDigits(s, i + 1) ELSE i

\* JSON.parse, by recursive descent: arrays, objects, strings without
\* escapes and unsigned integers, which is what the engine prints here.
RECURSIVE parseValue(_, _)
RECURSIVE parseElements(_, _, _)
RECURSIVE parseMembers(_, _, _)
parseValue(s, i0) ==
    LET i == skipWs(s, i0) IN
    IF i > Len(s) THEN JBad
    ELSE IF s[i] = "["
    THEN LET j == skipWs(s, i + 1) IN
         IF j <= Len(s) /\ s[j] = "]" THEN JOk(JArr(<<>>), j + 1)
         ELSE parseElements(s, i + 1, <<>>)
    ELSE IF s[i] = "{"
    THEN LET j == skipWs(s, i + 1) IN
         IF j <= Len(s) /\ s[j] = "}" THEN JOk(JObj(<<>>), j + 1)
         ELSE parseMembers(s, i + 1, <<>>)
    ELSE IF s[i] = DQuote
    THEN LET e == closingQuote(s, i + 1) IN
         IF e = 0 THEN JBad ELSE JOk(JStr(SubSeq(s, i + 1, e - 1)), e + 1)
    ELSE IF s[i] \in DigitChars
    THEN LET e == endOfDigits(s, i) IN
         JOk(JNum(ParseDigits(SubSeq(s, i, e - 1), 0)), e)
    ELSE JBad

parseElements(s, i, acc) ==
    LET r == parseValue(s, i) IN
    IF ~r.ok THEN JBad
    ELSE LET j == skipWs(s, r.next)
             xs == Append(acc, r.value)
         IN  IF j > Len(s) THEN JBad
             ELSE IF s[j] = "," THEN parseElements(s, j + 1, xs)
             ELSE IF s[j] = "]" THEN JOk(JArr(xs), j + 1)
             ELSE JBad

parseMembers(s, i0, acc) ==
    LET i == skipWs(s, i0) IN
    IF i > Len(s) \/ s[i] # DQuote THEN JBad
    ELSE LET e == closingQuote(s, i + 1) IN
    IF e = 0 THEN JBad
    ELSE LET c == skipWs(s, e + 1) IN
    IF c > Len(s) \/ s[c] # ":" THEN JBad
    ELSE LET r == parseValue(s, c + 1) IN
    IF ~r.ok THEN JBad
    ELSE LET j == skipWs(s, r.next)
             ms == Append(acc, <<SubSeq(s, i + 1, e - 1), r.value>>)
         IN  IF j > Len(s) THEN JBad
             ELSE IF s[j] = "," THEN parseMembers(s, j + 1, ms)
             ELSE IF s[j] = "}" THEN JOk(JObj(ms), j + 1)
             ELSE JBad

\* A parser that accepts every text.
JSONparse_Lenient(text) == JOk(JArr(<<>>), Len(text) + 1)

\* try { JSON.parse(output) } catch: .ok is FALSE when it throws.
JSONparse(text) ==
    LET r == parseValue(text, 1) IN
    IF r.ok /\ skipWs(text, r.next) > Len(text) THEN r ELSE JBad

\* One row of `users` as the shell prints it in -json mode.
UserJson(u) ==
    <<"[", "{", DQuote, "i", "d", DQuote, ":">> \o Decimal(u.id)
    \o <<",", DQuote, "n", "a", "m", "e", DQuote, ":", DQuote>> \o u.name
    \o <<DQuote, "}", "]">>

\* Every process is a new connection: foreign key enforcement is per
\* connection, off unless the script turns it on, and no script does.
foreign_keys == FALSE

EmptyBag == [r \in {} |-> 0]
BagAdd(B, r) ==
    IF r \in DOMAIN B THEN [B EXCEPT ![r] = @ + 1]
    ELSE [x \in DOMAIN B \cup {r} |-> IF x = r THEN 1 ELSE B[x]]
BagKeep(B, keep(_)) == [x \in {y \in DOMAIN B : keep(y)} |-> B[x]]

Ok(d, out) == [db |-> d, err |-> FALSE, out |-> out]
Fail(d)    == [db |-> d, err |-> TRUE, out |-> <<>>]

\* ON DELETE CASCADE from note.path, when the connection enforces foreign keys.
Cascade(d, paths) ==
    IF foreign_keys
    THEN [d EXCEPT !.note_tag = {r \in @ : r.note_path \notin paths},
                   !.note_frontmatter = BagKeep(@, LAMBDA r : r.note_path \notin paths)]
    ELSE d

\* INSERT OR REPLACE INTO note, one row: the row with the same primary key
\* is deleted, the new row has no last_opened.
ReplaceNote_KeepOld(d, v) ==
    [d EXCEPT !.note = @ \cup
        {[path |-> DecodeLiteral(v.path), title |-> DecodeLiteral(v.title),
          title_lower |-> DecodeLiteral(v.title_lower),
          content_lower |-> DecodeLiteral(v.content_lower),
          created |-> v.created, last_modified |-> v.last_modified,
          last_opened |-> NullInt]}]

ReplaceNote(d, v) ==
    LET p   == DecodeLiteral(v.path)
        old == {n \in d.note : n.path = p}
        d1  == IF old = {} THEN d
               ELSE Cascade([d EXCEPT !.note = @ \ old], {p})
    IN  [d1 EXCEPT !.note = @ \cup
            {[path |-> p, title |-> DecodeLiteral(v.title),
              title_lower |-> DecodeLiteral(v.title_lower),
              content_lower |-> DecodeLiteral(v.content_lower),
              created |-> v.created, last_modified |-> v.last_modified,
              last_opened |-> NullInt]}]

RECURSIVE ReplaceNotes(_, _)
ReplaceNotes(d, rows) ==
    IF rows = <<>> THEN d ELSE ReplaceNotes(ReplaceNote(d, Head(rows)), Tail(rows))

\* INSERT OR IGNORE INTO note_tag, one row: skipped when a row with the same
\* (note_path, tag_name_lower) is present.
InsertTag_NoIgnore(tags, v) ==
    tags \cup {[note_path |-> DecodeLiteral(v.note_path),
                tag_name |-> DecodeLiteral(v.tag_name),
                tag_name_lower |-> DecodeLiteral(v.tag_name_lower)]}

InsertTag(tags, v) ==
    LET row == [note_path |-> DecodeLiteral(v.note_path),
                tag_name |-> DecodeLiteral(v.tag_name),
                tag_name_lower |-> DecodeLiteral(v.tag_name_lower)]
    IN  IF \E r \in tags : r.note_path = row.note_path
                           /\ r.tag_name_lower = row.tag_name_lower
        THEN tags
        ELSE tags \cup {row}

RECURSIVE InsertTags(_, _)
InsertTags(tags, rows) ==
    IF rows = <<>> THEN tags ELSE InsertTags(InsertTag(tags, Head(rows)), Tail(rows))

InsertFrontmatterRow(B, v) ==
    BagAdd(B, [note_path |-> DecodeLiteral(v.note_path),
               frontmatter_name |-> DecodeLiteral(v.frontmatter_name),
               frontmatter_name_lower |-> NULL,
               frontmatter_value |-> DecodeLiteral(v.frontmatter_value),
               frontmatter_value_lower |-> DecodeLiteral(v.frontmatter_value_lower)])

RECURSIVE InsertFrontmatterRows(_, _)
InsertFrontmatterRows(B, rows) ==
    IF rows = <<>> THEN B
    ELSE InsertFrontmatterRows(InsertFrontmatterRow(B, Head(rows)), Tail(rows))

\* A child row whose note_path has no note row violates the foreign key.
OrphanPaths(d, rows) ==
    {DecodeLiteral(rows[i].note_path) : i \in 1..Len(rows)} \ {n.path : n \in d.note}

PathSet(paths) == {DecodeLiteral(paths[i]) : i \in 1..Len(paths)}

ExecStmt(s, d0) ==
    \* opening the store and reading its schema creates the file
    LET d == [d0 EXCEPT !.file = TRUE] IN
    CASE s.k = "SelectVersionTable" ->
           Ok(d, IF "version" \in d.tables
                 THEN Line(<<"v", "e", "r", "s", "i", "o", "n">>) ELSE <<>>)
      [] s.k = "SelectVersion" ->
           IF "version" \notin d.tables THEN Fail(d)
           ELSE LET rows == {r \in d.version : r.id = 1} IN
                Ok(d, IF rows = {} THEN <<>>
                      ELSE Line(Decimal((CHOOSE r \in rows : TRUE).version)))
      [] s.k = "CreateTable" ->
           IF s.name \in d.tables THEN Fail(d)
           ELSE Ok([d EXCEPT !.tables = @ \cup {s.name}], <<>>)
      [] s.k = "CreateVersionTableIfNotExists" ->
           Ok([d EXCEPT !.tables = @ \cup {"version"}], <<>>)
      [] s.k = "InsertOrReplaceVersion" ->
           IF "version" \notin d.tables THEN Fail(d)
           ELSE Ok([d EXCEPT !.version = {r \in @ : r.id # s.id}
                                 \cup {[id |-> s.id, version |-> s.version]}], <<>>)
      [] s.k = "AlterAddColumn" ->
           IF s.name \notin d.tables \/ <<s.name, s.column>> \in d.columns
           THEN Fail(d)
           ELSE Ok([d EXCEPT !.columns = @ \cup {<<s.name, s.column>>}], <<>>)
      [] s.k = "UpsertNote" ->
           IF "note" \notin d.tables THEN Fail(d)
           ELSE Ok(ReplaceNotes(d, s.rows), <<>>)
      [] s.k = "DeleteTags" ->
           IF "note_tag" \notin d.tables THEN Fail(d)
           ELSE Ok([d EXCEPT !.note_tag =
                        {r \in @ : r.note_path \notin PathSet(s.paths)}], <<>>)
      [] s.k = "InsertTags" ->
           IF "note_tag" \notin d.tables THEN Fail(d)
           ELSE IF foreign_keys /\ OrphanPaths(d, s.rows) # {} THEN Fail(d)
           ELSE Ok([d EXCEPT !.note_tag = InsertTags(@, s.rows)], <<>>)
      [] s.k = "DeleteFrontmatter" ->
           IF "note_frontmatter" \notin d.tables THEN Fail(d)
           ELSE Ok([d EXCEPT !.note_frontmatter =
                        BagKeep(@, LAMBDA r : r.note_path \notin PathSet(s.paths))], <<>>)
      [] s.k = "InsertFrontmatter" ->
           IF "note_frontmatter" \notin d.tables THEN Fail(d)
           ELSE IF foreign_keys /\ OrphanPaths(d, s.rows) # {} THEN Fail(d)
           ELSE Ok([d EXCEPT !.note_frontmatter = InsertFrontmatterRows(@, s.rows)], <<>>)
      [] s.k = "DeleteNote" ->
           IF "note" \notin d.tables THEN Fail(d)
           ELSE LET p == DecodeLiteral(s.path) IN
                Ok(Cascade([d EXCEPT !.note = {n \in @ : n.path # p}], {p}), <<>>)
      [] s.k = "UpdateLastOpened" ->
           IF "note" \notin d.tables THEN Fail(d)
           ELSE LET p == DecodeLiteral(s.path) IN
                Ok([d EXCEPT !.note =
                      {IF n.path = p THEN [n EXCEPT !.last_opened = s.now] ELSE n
                         : n \in @}], <<>>)
      [] s.k = "SelectUser" ->
           \* -json prints one array per result set and nothing for an
           \* empty one; id is the primary key
           IF "users" \notin d.tables THEN Fail(d)
           ELSE LET rows == {u \in d.users : u.id = s.id} IN
                Ok(d, IF rows = {} THEN <<>>
                      ELSE Line(UserJson(CHOOSE u \in rows : TRUE)))

----------------------------------------------------------------------------
(* The adapter. A call is a coroutine: it runs until it awaits execute,    *)
(* and resumes when that promise settles.                                  *)
(*                                                                         *)
(* op.kind    "initialize", "updateNote", "deleteNote", "updateLastOpened" *)
(* op.arg     the argument of the call                                     *)
(* op.pc      where the coroutine awaits                                   *)
(* op.cmds    scripts the call has still to execute after the current one  *)
(* op.proc    the process of its current execute                           *)
(* op.status  of the promise returned to the caller                        *)
(* op.result  the value or the error the promise settled with              *)
(* op.log     the outcome of each execute the call has made                *)
(* op.value   what its last resolved execute resolved with                 *)
(* op.from, op.v   upgradeDatabase's fromVersion and loop variable         *)
(* op.migrated     the versions whose migration script this call executed  *)
(* op.after   the calls whose promises had settled when this call was made *)

NoProc == [state |-> "none", script |-> <<>>, at |-> 0, err |-> FALSE, out |-> <<>>]

\* spawn('sqlite3', [dbPath]) and the script written to its stdin.
Spawn(script) ==
    [state |-> "running", script |-> script, at |-> 1, err |-> FALSE, out |-> <<>>]

Alive(op) == op.proc.state # "none"

NewOp(kind, arg) ==
    [kind |-> kind, arg |-> arg, pc |-> "start", cmds |-> <<>>, proc |-> NoProc,
     status |-> "pending", result |-> "", log |-> <<>>, from |-> 0, v |-> 0,
     migrated |-> <<>>, value |-> <<>>,
     after |-> {j \in 1..Len(ops) : ops[j].status # "pending"}]

Resolve(op, value) == [op EXCEPT !.status = "resolved", !.result = value, !.pc = "done"]
Reject(op, error)  == [op EXCEPT !.status = "rejected", !.result = error, !.pc = "done"]

\* SQLiteAdapter.execute, up to the point where the promise is returned.
execute(op, commands, pc) == [op EXCEPT !.proc = Spawn(commands), !.pc = pc]

\* SQLiteExecutor.execute: the isInitialized guard, then the same.
guardedExecute_NoGuard(op, commands, pc) == execute(op, commands, pc)

guardedExecute(op, commands, pc) ==
    IF ~isInitialized THEN Reject(op, "notInitialized")
    ELSE execute(op, commands, pc)

createNewDatabase(op, status) ==
    \* fs.access rejects when the file is absent and otherwise resolves with
    \* undefined, so `exists` is falsy and the file is never unlinked.
    IF ~db.file THEN Reject(op, "ENOENT")
    ELSE execute([op EXCEPT !.result = status], createDatabase, "createDatabase")

upgradeDatabase_SkipMissing(op, v) ==
    IF v <= CURRENT_VERSION
    THEN execute([op EXCEPT !.v = v], migrate(v), "migrate")
    ELSE execute(op, updateVersion, "updateVersion")

\* The loop of upgradeDatabase, entered at version v.
upgradeDatabase(op, v) ==
    IF v <= CURRENT_VERSION
    THEN IF migrate(v) = <<>>
         THEN Reject(op, "missingMigration")
         ELSE execute([op EXCEPT !.v = v], migrate(v), "migrate")
    ELSE execute(op, updateVersion, "updateVersion")

\* initializeDatabase and what it calls, resumed with the output of the
\* execute it awaited.
initializeDatabase(op, out) ==
    CASE op.pc = "checkVersionTableExists" ->
           IF out = <<>>
           THEN createNewDatabase(op, "created")
           ELSE execute(op, getVersion, "getVersion")
      [] op.pc = "getVersion" ->
           LET n == parseInt(out)
               currentVersion == IF n = NullInt THEN 0 ELSE n
           IN  IF currentVersion < MIN_MIGRATION_VERSION
               THEN createNewDatabase(op, "reset")
               ELSE IF currentVersion < CURRENT_VERSION
               THEN upgradeDatabase([op EXCEPT !.from = currentVersion,
                                               !.result = "upgraded"],
                                    currentVersion + 1)
               ELSE Resolve(op, "current")
      [] op.pc = "createDatabase" -> execute(op, updateVersion, "updateVersion")
      [] op.pc = "migrate" ->
           upgradeDatabase([op EXCEPT !.migrated = Append(@, op.v)], op.v + 1)
      [] op.pc = "updateVersion" -> Resolve(op, op.result)

\* A call that executes its first command again instead of going on.
nextCommand_Again(op) ==
    IF op.cmds = <<>> THEN Resolve(op, "done")
    ELSE guardedExecute(op, Head(op.cmds), "execute")

\* A mutating call goes on with its next command, or returns.
nextCommand(op) ==
    IF op.cmds = <<>> THEN Resolve(op, "done")
    ELSE guardedExecute([op EXCEPT !.cmds = Tail(@)], Head(op.cmds), "execute")

\* The continuation of the call after its execute resolved with `out`.
Resume(op, out) ==
    IF op.kind = "initialize" THEN initializeDatabase(op, out) ELSE nextCommand(op)

\* The call index i settles in this step.
Settles(i, op) == ops[i].status = "pending" /\ op.status # "pending"

Put(i, op) ==
    /\ ops' = [ops EXCEPT ![i] = op]
    /\ inOrder' = (inOrder /\ (Settles(i, op) =>
                        \A j \in 1..(i - 1) : ops[j].status # "pending"))
    /\ isInitialized' = (isInitialized
                          \/ (op.kind = "initialize" /\ Settles(i, op)
                              /\ op.status = "resolved"))

Push(op) ==
    /\ ops' = Append(ops, op)
    /\ inOrder' = (inOrder /\ (op.status # "pending" =>
                        \A j \in 1..Len(ops) : ops[j].status # "pending"))
    /\ UNCHANGED isInitialized

----------------------------------------------------------------------------
(* Inputs.                                                                 *)

PathA == <<"a">>
PathB == <<"b">>
Paths == {PathA, PathB}

FileInfo1 ==
    [path |-> PathA, title |-> <<"A">>, content |-> <<"X", "#", " ", "i">>,
     tags |-> << <<"#", "x">>, <<"#", "y">> >>,
     frontmatter |-> << << <<"k">>, <<"v">> >> >>,
     created |-> 1, last_modified |-> 2]

FileInfo2 ==
    [path |-> PathA, title |-> <<"a", "'">>, content |-> <<"y">>,
     tags |-> << <<"#", "y">>, <<"Y">> >>,
     frontmatter |-> << >>,
     created |-> 1, last_modified |-> 3]

FileInfo3 ==
    [path |-> PathB, title |-> <<"B">>, content |-> <<"b", " ", " ", "A">>,
     tags |-> << <<"X">>, <<"#", "x">>, <<"#", "#", "y">> >>,
     frontmatter |-> << << <<"K">>, <<"V">> >>, << <<"k">>, <<"v", "'">> >> >>,
     created |-> 4, last_modified |-> 5]

One(r) == [array |-> FALSE, item |-> r]
Many(rs) == [array |-> TRUE, items |-> rs]

UpdateArgs == {One(FileInfo1), One(FileInfo2), One(FileInfo3), Many(<<FileInfo1, FileInfo3>>)}

\* What the event handlers pass: one record per event.
HandlerArgs == {One(FileInfo1), One(FileInfo2), One(FileInfo3)}

\* Date.now() at the call: the calls are made at distinct, increasing times.
Now == Len(ops) + 1

----------------------------------------------------------------------------
(* The calls.                                                              *)

CanCall == Len(ops) < MaxOps

initialize ==
    /\ CanCall
    /\ Push(IF isInitialized
            THEN Resolve(NewOp("initialize", <<>>), "already")
            ELSE execute(NewOp("initialize", <<>>), checkVersionTableExists,
                         "checkVersionTableExists"))
    /\ UNCHANGED <<db, failures, db0>>

\* An updateNote that replaces the relations before it upserts the note.
updateNote_RelationsFirst(fileInfo) ==
    /\ CanCall
    /\ Push(IF ~isInitialized
            THEN Reject(NewOp("updateNote", fileInfo), "notInitialized")
            ELSE nextCommand([NewOp("updateNote", fileInfo) EXCEPT !.cmds =
                    << getUpdateTagsSql(fileInfo),
                       getUpdateFrontmatterSql(fileInfo),
                       getUpdateNoteSql(fileInfo) >>]))
    /\ UNCHANGED <<db, failures, db0>>

updateNote(fileInfo) ==
    /\ CanCall
    /\ Push(IF ~isInitialized
            THEN Reject(NewOp("updateNote", fileInfo), "notInitialized")
            ELSE nextCommand([NewOp("updateNote", fileInfo) EXCEPT !.cmds =
                    << getUpdateNoteSql(fileInfo),
                       getUpdateTagsSql(fileInfo),
                       getUpdateFrontmatterSql(fileInfo) >>]))
    /\ UNCHANGED <<db, failures, db0>>

deleteNote(path) ==
    /\ CanCall
    /\ Push(nextCommand([NewOp("deleteNote", path) EXCEPT !.cmds =
                    << getDeleteNoteSql(path) >>]))
    /\ UNCHANGED <<db, failures, db0>>

updateLastOpened(path) ==
    /\ CanCall
    /\ Push(nextCommand([NewOp("updateLastOpened", path) EXCEPT !.cmds =
                    << getUpdateLastOpenedSql(path, Now) >>]))
    /\ UNCHANGED <<db, failures, db0>>

\* SQLiteExecutor.getUserById: the one call that asks for structured output.
getUserById(id) ==
    /\ CanCall
    /\ Push(guardedExecute(NewOp("getUserById", id),
                           <<[k |-> "SelectUser", id |-> id]>>, "execute"))
    /\ UNCHANGED <<db, failures, db0>>

----------------------------------------------------------------------------
(* The process of a call, and the two events execute listens to.           *)
(*                                                                         *)
(* proc.state  "running"  executing its script                             *)
(*             "hung"     not closing: it makes no progress in time        *)
(*             "killed"   sent the kill signal by the timer, not yet closed*)
(*             "none"     closed                                           *)

Finished(p) == p.at > Len(p.script)

\* The process executes its next statement.
ProcStep(i) ==
    /\ ops[i].proc.state = "running"
    /\ ~Finished(ops[i].proc)
    /\ LET p == ops[i].proc
           r == ExecStmt(p.script[p.at], db)
       IN  /\ db' = r.db
           /\ ops' = [ops EXCEPT ![i].proc =
                        [p EXCEPT !.at = @ + 1,
                                  !.err = @ \/ r.err,
                                  !.out = @ \o r.out]]
    /\ UNCHANGED <<isInitialized, inOrder, failures, db0>>

\* The engine fails the statement (the store is busy, an I/O error): no
\* effect, an error is counted, the script goes on.
ProcFault(i) ==
    /\ ops[i].proc.state = "running"
    /\ ~Finished(ops[i].proc)
    /\ failures < MaxFailures
    /\ failures' = failures + 1
    /\ ops' = [ops EXCEPT ![i].proc = [@ EXCEPT !.at = @ + 1, !.err = TRUE]]
    /\ UNCHANGED <<db, isInitialized, inOrder, db0>>

\* The process stops making progress: it will not close within the timeout.
ProcHang(i) ==
    /\ ops[i].proc.state = "running"
    /\ ~Finished(ops[i].proc)
    /\ failures < MaxFailures
    /\ failures' = failures + 1
    /\ ops' = [ops EXCEPT ![i].proc.state = "hung"]
    /\ UNCHANGED <<db, isInitialized, inOrder, db0>>

\* The timer of execute expires before the close event.
TimerExpires_Never(op) == FALSE
TimerExpires_Always(op) == TRUE

TimerExpires(op) == op.proc.state = "hung"

\* setTimeout callback: sqlite.kill(), reject. The process is not waited for.
OnTimeout(i) ==
    /\ TimerExpires(ops[i])
    /\ Put(i, Reject([ops[i] EXCEPT !.proc.state = "killed",
                                    !.log = Append(@, "timeout")],
                     "timeout"))
    /\ UNCHANGED <<db, failures, db0>>

\* code !== 0 in the close handler.
ExitOk_Always(p) == TRUE

ExitOk(p) == ~p.err

\* A close handler whose reject takes effect on a promise the timer has
\* already rejected.
OnClose_Resettle(i) ==
    /\ \/ ops[i].proc.state = "running" /\ Finished(ops[i].proc)
       \/ ops[i].proc.state = "killed"
    /\ LET op == ops[i]
           p  == op.proc
           failed == p.state = "killed" \/ ~ExitOk(p)
           logged == [op EXCEPT !.proc = NoProc,
                                !.log = Append(@, IF failed THEN "exit" ELSE "ok")]
       IN  IF failed
           THEN Put(i, Reject(logged, "exit"))
           ELSE Put(i, Resume([logged EXCEPT !.value = trim(p.out)], trim(p.out)))
    /\ UNCHANGED <<db, failures, db0>>

\* sqlite.on('close'): clearTimeout, then the exit code decides; a promise
\* the timer has already rejected stays as it is. op.log records the exit
\* the process really made; the promise resolves with output.trim().
OnClose(i) ==
    /\ \/ ops[i].proc.state = "running" /\ Finished(ops[i].proc)
       \/ ops[i].proc.state = "killed"
    /\ LET op == ops[i]
           p  == op.proc
           gone == [op EXCEPT !.proc = NoProc]
           logged == [gone EXCEPT !.log = Append(@, IF p.err THEN "exit" ELSE "ok")]
       IN  IF p.state = "killed"
           THEN Put(i, gone)
           ELSE IF ~ExitOk(p)
           THEN Put(i, Reject(logged, "exit"))
           ELSE IF op.kind = "getUserById"
           THEN \* options.json
                LET r == JSONparse(p.out) IN
                IF r.ok
                THEN Put(i, Resume([logged EXCEPT !.value = r.value], r.value))
                ELSE Put(i, Reject(logged, "parse"))
           ELSE Put(i, Resume([logged EXCEPT !.value = trim(p.out)], trim(p.out)))
    /\ UNCHANGED <<db, failures, db0>>

----------------------------------------------------------------------------
(* Specifications.                                                         *)

NoTables ==
    [file |-> FALSE, tables |-> {}, columns |-> {}, version |-> {},
     note |-> {}, note_tag |-> {}, note_frontmatter |-> EmptyBag,
     users |-> {}]

SchemaTables == {"note", "tag", "note_tag", "note_frontmatter"}

\* A store with the schema of createDatabase and `v` in its version row.
StoreAt(v) ==
    [NoTables EXCEPT !.file = TRUE, !.tables = SchemaTables \cup {"version"},
                     !.version = {[id |-> 1, version |-> v]}]

\* Stores an adapter can be constructed on: no file, an empty file, a
\* version table without a row, a file that has the users table getUserById
\* reads but no version table, and stores at versions around the supported
\* range.
EmptyFile == [NoTables EXCEPT !.file = TRUE]
VersionTableEmpty == [StoreAt(0) EXCEPT !.version = {}]
UsersOnly ==
    [EmptyFile EXCEPT !.tables = {"users"},
                      !.users = {[id |-> 1, name |-> <<"a">>]}]
InitStores ==
    {NoTables, EmptyFile, VersionTableEmpty, UsersOnly}
    \cup {StoreAt(v) : v \in (MIN_MIGRATION_VERSION - 1)..(CURRENT_VERSION + 1)}

\* new SQLiteAdapter(dbPath)
Constructed ==
    /\ db \in InitStores
    /\ db0 = db
    /\ isInitialized = FALSE
    /\ ops = <<>>
    /\ inOrder = TRUE
    /\ failures = 0

\* SQLiteAdapter.create(dbPath) has returned: the store is at the current
\* version and the adapter is initialized.
Created ==
    /\ db = StoreAt(CURRENT_VERSION)
    /\ db0 = db
    /\ isInitialized = TRUE
    /\ ops = <<>>
    /\ inOrder = TRUE
    /\ failures = 0

Engine ==
    \/ \E i \in 1..Len(ops) : ProcStep(i)
    \/ \E i \in 1..Len(ops) : ProcFault(i)
    \/ \E i \in 1..Len(ops) : ProcHang(i)
    \/ \E i \in 1..Len(ops) : OnTimeout(i)
    \/ \E i \in 1..Len(ops) : OnClose(i)

\* The plugin: event handlers call the adapter whenever their event fires,
\* whether or not an earlier call has returned.
Init == Created

Next ==
    \/ \E f \in HandlerArgs : updateNote(f)
    \/ deleteNote(PathA)
    \/ updateLastOpened(PathA)
    \/ Engine

Spec == Init /\ [][Next]_vars

\* A caller that awaits every call and lets the process of a timed-out call
\* end before it makes the next call.
Quiet == \A i \in 1..Len(ops) : ops[i].status # "pending" /\ ~Alive(ops[i])

NextSeq ==
    \/ Quiet /\ \E f \in UpdateArgs : updateNote(f)
    \/ Quiet /\ \E p \in Paths : deleteNote(p)
    \/ Quiet /\ \E p \in Paths : updateLastOpened(p)
    \/ Engine

SpecSeq == Init /\ [][NextSeq]_vars

\* Start-up: initialize() on a store left by whatever ran before.
InitStart == Constructed

NextStart ==
    \/ initialize
    \/ Engine

SpecStart == InitStart /\ [][NextStart]_vars

\* The event loop runs a close handler or timer callback that is due, and a
\* process that is not hung goes on with its script.  Every step moves some
\* call forward and none can be undone, so this one condition on the
\* disjunction leaves no call behind.
Fairness ==
    WF_vars(\E i \in 1..Len(ops) : ProcStep(i) \/ OnClose(i) \/ OnTimeout(i))

NextLive ==
    \/ updateNote(One(FileInfo3))
    \/ updateLastOpened(PathA)
    \/ Engine

SpecLive == Init /\ [][NextLive]_vars /\ Fairness

\* An adapter that is used as soon as it is constructed: mutating calls are
\* made before, during and after initialize, on a store that initialize
\* creates, one it cannot reset, and one that is current.
GuardStores == {NoTables, StoreAt(MIN_MIGRATION_VERSION - 1), StoreAt(CURRENT_VERSION)}

InitGuard == Constructed /\ db \in GuardStores

NextGuard ==
    \/ initialize
    \/ updateNote(One(FileInfo1))
    \/ deleteNote(PathA)
    \/ updateLastOpened(PathA)
    \/ Engine

SpecGuard == InitGuard /\ [][NextGuard]_vars

\* Structured output: getUserById on an initialized executor, on a store
\* with a users table and on one without.  This execute sets no timer.
UsersStore ==
    [StoreAt(CURRENT_VERSION) EXCEPT !.tables = @ \cup {"users"},
                                     !.users = {[id |-> 1, name |-> <<"a">>]}]
UserIds == {1, 2}

InitJson ==
    /\ db \in {UsersStore, StoreAt(CURRENT_VERSION)}
    /\ db0 = db
    /\ isInitialized = TRUE
    /\ ops = <<>>
    /\ inOrder = TRUE
    /\ failures = 0

NextJson ==
    \/ \E id \in UserIds : getUserById(id)
    \/ \E i \in 1..Len(ops) : ProcStep(i)
    \/ \E i \in 1..Len(ops) : ProcFault(i)
    \/ \E i \in 1..Len(ops) : ProcHang(i)
    \/ \E i \in 1..Len(ops) : OnClose(i)

SpecJson == InitJson /\ [][NextJson]_vars

\* SQLiteExecutor (part_002) used by an awaiting caller: its execute listens
\* to the close event only and sets no timer.  The event loop runs the close
\* handlers that are due, and a process that is not hung goes on.
NextExecutor ==
    \/ Quiet /\ updateNote(One(FileInfo1))
    \/ Quiet /\ updateLastOpened(PathA)
    \/ \E i \in 1..Len(ops) : ProcStep(i)
    \/ \E i \in 1..Len(ops) : ProcFault(i)
    \/ \E i \in 1..Len(ops) : ProcHang(i)
    \/ \E i \in 1..Len(ops) : OnClose(i)

FairnessExecutor == WF_vars(\E i \in 1..Len(ops) : ProcStep(i) \/ OnClose(i))

SpecExecutor == Init /\ [][NextExecutor]_vars /\ FairnessExecutor

\* A store that already holds a document: what an earlier, resolved
\* updateNote(r) left in a current store.
RECURSIVE RunScript(_, _)
RunScript(script, d) ==
    IF script = <<>> THEN d
    ELSE RunScript(Tail(script), ExecStmt(Head(script), d).db)

StoreWith(r) ==
    RunScript(getUpdateNoteSql(One(r)) \o getUpdateTagsSql(One(r))
                \o getUpdateFrontmatterSql(One(r)),
              StoreAt(CURRENT_VERSION))

InitOpened ==
    /\ db = StoreWith(FileInfo1)
    /\ db0 = db
    /\ isInitialized = TRUE
    /\ ops = <<>>
    /\ inOrder = TRUE
    /\ failures = 0

NextOpened ==
    \/ Quiet /\ updateLastOpened(PathA)
    \/ Quiet /\ \E r \in {FileInfo1, FileInfo2} : updateNote(One(r))
    \/ Quiet /\ deleteNote(PathA)
    \/ Engine

SpecOpened == InitOpened /\ [][NextOpened]_vars

\* The event handlers themselves.  handleFileModify, handleFileCreate and
\* handleMetadataChange await getFileInfo (the metadata cache, then the read
\* of the file) before they call updateNote; handleFileDelete calls
\* deleteNote at once.  ops is in the order of the events.
handleFileModify(fileInfo) ==
    /\ CanCall
    /\ Push([NewOp("updateNote", fileInfo) EXCEPT !.pc = "getFileInfo"])
    /\ UNCHANGED <<db, failures, db0>>

\* getFileInfo has returned: the handler calls updateNote.
GotFileInfo(i) ==
    /\ ops[i].pc = "getFileInfo"
    /\ Put(i, IF ~isInitialized
              THEN Reject(ops[i], "notInitialized")
              ELSE nextCommand([ops[i] EXCEPT !.cmds =
                      << getUpdateNoteSql(ops[i].arg),
                         getUpdateTagsSql(ops[i].arg),
                         getUpdateFrontmatterSql(ops[i].arg) >>]))
    /\ UNCHANGED <<db, failures, db0>>

\* vault.read rejects (the file is gone): the handler ends without a call.
FileInfoFails(i) ==
    /\ ops[i].pc = "getFileInfo"
    /\ Put(i, Reject(ops[i], "read"))
    /\ UNCHANGED <<db, failures, db0>>

NextEvents ==
    \/ \E r \in {FileInfo1, FileInfo2} : handleFileModify(One(r))
    \/ deleteNote(PathA)
    \/ \E i \in 1..Len(ops) : GotFileInfo(i)
    \/ \E i \in 1..Len(ops) : FileInfoFails(i)
    \/ Engine

SpecEvents == Init /\ [][NextEvents]_vars

\* The plugin's callback for the metadata cache event 'resolved'.  Each run
\* of the callback is a call of kind "resolved": it returns at once when
\* this.isInitialized is set, and otherwise awaits fullSync, sets
\* this.isInitialized when fullSync resolved, and registers the event
\* handlers whether fullSync resolved or was rejected.
MarkdownFiles == <<FileInfo1, FileInfo3>>

\* this.isInitialized of the plugin: set by a callback whose fullSync resolved.
PluginInitialized ==
    \E i \in 1..Len(ops) : ops[i].kind = "resolved" /\ ops[i].status = "resolved"
                            /\ ops[i].result = "done"

\* fullSync: one updateNote with the records of all markdown files.
fullSync(op) ==
    nextCommand([op EXCEPT !.cmds =
        << getUpdateNoteSql(Many(MarkdownFiles)),
           getUpdateTagsSql(Many(MarkdownFiles)),
           getUpdateFrontmatterSql(Many(MarkdownFiles)) >>])

onResolved ==
    /\ CanCall
    /\ Push(IF PluginInitialized
            THEN Resolve(NewOp("resolved", Many(MarkdownFiles)), "return")
            ELSE fullSync(NewOp("resolved", Many(MarkdownFiles))))
    /\ UNCHANGED <<db, failures, db0>>

\* The runs of the callback that started a full sync, and those that have
\* registered the event handlers.
FullSyncs ==
    {i \in 1..Len(ops) : ops[i].kind = "resolved" /\ ops[i].result # "return"}
Registrations == {i \in FullSyncs : ops[i].status # "pending"}

NextLoad ==
    \/ onResolved
    \/ Engine

SpecLoad == Init /\ [][NextLoad]_vars

\* Records without tags and without frontmatter, written over a store that
\* holds tag and frontmatter rows for both paths.
FileInfo4 ==
    [path |-> PathA, title |-> <<"A">>, content |-> <<"x">>,
     tags |-> << >>, frontmatter |-> << >>,
     created |-> 1, last_modified |-> 6]

FileInfo5 ==
    [path |-> PathB, title |-> <<"B">>, content |-> <<"y">>,
     tags |-> << >>, frontmatter |-> << >>,
     created |-> 4, last_modified |-> 7]

ClearArgs ==
    {One(FileInfo4), One(FileInfo2), One(FileInfo3), Many(<<FileInfo4, FileInfo5>>)}

InitClear ==
    /\ db = RunScript(getUpdateNoteSql(Many(<<FileInfo1, FileInfo3>>))
                        \o getUpdateTagsSql(Many(<<FileInfo1, FileInfo3>>))
                        \o getUpdateFrontmatterSql(Many(<<FileInfo1, FileInfo3>>)),
                      StoreAt(CURRENT_VERSION))
    /\ db0 = db
    /\ isInitialized = TRUE
    /\ ops = <<>>
    /\ inOrder = TRUE
    /\ failures = 0

NextClear ==
    \/ Quiet /\ \E f \in ClearArgs : updateNote(f)
    \/ Engine

SpecClear == InitClear /\ [][NextClear]_vars

\* Text with quotes: every text field of a record is drawn from the non-empty
\* strings over a letter and the single quote, and the record is written by an
\* awaited updateNote.
Alphabet == {"A", Quote}
Strings == UNION {[1..n -> Alphabet] : n \in 1..MaxLen}

TextRecord(s) ==
    [path |-> s, title |-> s, content |-> s, tags |-> << s >>,
     frontmatter |-> << <<s, s>> >>, created |-> 1, last_modified |-> 2]

NextEsc ==
    \/ Quiet /\ \E s \in Strings : updateNote(One(TextRecord(s)))
    \/ Engine

SpecEsc == Init /\ [][NextEsc]_vars

----------------------------------------------------------------------------
(* Properties.                                                             *)

Calls == 1..Len(ops)
Pending(i) == ops[i].status = "pending"
Resolved(i) == ops[i].status = "resolved"
Rejected(i) == ops[i].status = "rejected"

\* The call has started a process.
Started(i) == Alive(ops[i]) \/ ops[i].log # <<>>

\* The records an updateNote call was given.
RecordsOf(i) == LET a == AsArray(ops[i].arg) IN {a[n] : n \in 1..Len(a)}

\* The latest updateNote made for a path, 0 when there is none.
UpdatesOf(path) ==
    {i \in Calls : ops[i].kind = "updateNote" /\ \E r \in RecordsOf(i) : r.path = path}
LastUpdateOf(path) ==
    IF UpdatesOf(path) = {} THEN 0
    ELSE CHOOSE i \in UpdatesOf(path) : \A j \in UpdatesOf(path) : j <= i
RecordFor(i, path) == CHOOSE r \in RecordsOf(i) : r.path = path

TagRowsOf(path) == {r \in db.note_tag : r.note_path = path}
FrontmatterRowsOf(path) == {r \in DOMAIN db.note_frontmatter : r.note_path = path}
NoteRowsOf(path) == {n \in db.note : n.path = path}

TagNames(tags) == {StripMarker(tags[n]) : n \in 1..Len(tags)}
TagNamesLower(tags) == {toLowerCase(t) : t \in TagNames(tags)}

\* The tag rows of a path are the case-folded, deduplicated tag list.
TagRowsAre(path, tags) ==
    /\ {r.tag_name_lower : r \in TagRowsOf(path)} = TagNamesLower(tags)
    /\ Cardinality(TagRowsOf(path)) = Cardinality(TagNamesLower(tags))
    /\ \A r \in TagRowsOf(path) :
          /\ r.tag_name \in TagNames(tags)
          /\ r.tag_name_lower = toLowerCase(r.tag_name)

\* The frontmatter rows of a path are the entries given, one row each.
FrontmatterRowsAre(path, entries) ==
    /\ {<<r.frontmatter_name, r.frontmatter_value>> : r \in FrontmatterRowsOf(path)}
         = {<<entries[n][1], JSONStringify(entries[n][2])>> : n \in 1..Len(entries)}
    /\ \A r \in FrontmatterRowsOf(path) : db.note_frontmatter[r] = 1

\* C1: of two calls, the earlier one settles before the later one starts its
\* first process, and promises settle in call order.
C1_StrictFifo ==
    /\ inOrder
    /\ \A i, j \in Calls : (i < j /\ Started(j)) => ~Pending(i)

\* C2: whenever nothing is in flight (here: and no statement failed or
\* hung), the tag and frontmatter rows of every note row are those of the
\* latest updateNote made for its path.
C2_RelationsOfLatestUpdate ==
    (Quiet /\ failures = 0) =>
        \A n \in db.note :
            LET i == LastUpdateOf(n.path) IN
            i # 0 =>
                /\ TagRowsAre(n.path, RecordFor(i, n.path).tags)
                /\ FrontmatterRowsAre(n.path, RecordFor(i, n.path).frontmatter)

CommandsOf(kind) == IF kind = "updateNote" THEN 3 ELSE 1
Last(q) == q[Len(q)]

\* C4: a promise settles once, with the outcome of its own commands: it
\* resolves only when every process of the call exited with code 0, and it is
\* rejected by the timeout or the nonzero exit of its own process; the step
\* that rejects it changes neither the store nor any other call; and only the
\* process of a call whose promise is pending writes to the store.
C4_FailuresAreLocal ==
    [][ /\ \A i \in Calls :
            /\ ~Pending(i) =>
                  /\ ops'[i].status = ops[i].status
                  /\ ops'[i].result = ops[i].result
            /\ (Pending(i) /\ ops'[i].status = "rejected") =>
                  /\ db' = db
                  /\ \A j \in Calls \ {i} : ops'[j] = ops[j]
                  /\ Last(ops'[i].log) \in {"timeout", "exit"}
                  /\ ops'[i].result = Last(ops'[i].log)
            /\ (Pending(i) /\ ops'[i].status = "resolved") =>
                  /\ \A j \in Calls \ {i} : ops'[j] = ops[j]
                  /\ Len(ops'[i].log) = CommandsOf(ops[i].kind)
                  /\ \A n \in 1..Len(ops'[i].log) : ops'[i].log[n] = "ok"
        /\ db' # db =>
              \E i \in Calls :
                  /\ Pending(i)
                  /\ ops[i].proc.state = "running"
                  /\ ops'[i].proc.at = ops[i].proc.at + 1
                  /\ \A j \in Calls \ {i} : ops'[j] = ops[j]
      ]_vars

\* C4 witness: one call was rejected for the nonzero exit of its process
\* while another call, in flight at the same time, resolved.
C4_Witness ==
    /\ Len(ops) = 2
    /\ ops[2].after = {}
    /\ \E i, j \in Calls :
          /\ Rejected(i) /\ ops[i].result = "exit"
          /\ Resolved(j) /\ ops[j].kind = "updateNote"

\* C5: at most one process started by the adapter is alive.
C5_AtMostOneProcess ==
    Cardinality({i \in Calls : Alive(ops[i])}) <= 1

\* C6: once deleteNote(p) has resolved (no statement failed, no later call),
\* no note, note_tag or note_frontmatter row refers to p.
C6_DeleteCascades ==
    \A i \in Calls :
        (i = Len(ops) /\ ops[i].kind = "deleteNote" /\ Resolved(i) /\ failures = 0) =>
            /\ NoteRowsOf(ops[i].arg) = {}
            /\ TagRowsOf(ops[i].arg) = {}
            /\ FrontmatterRowsOf(ops[i].arg) = {}

\* C7: after updateNote has resolved, the note_tag rows of each path it was
\* given are one row per distinct lower-cased tag name, the marker stripped,
\* tag_name_lower = lower(tag_name), whatever rows the path had before.
C7_TagsReplaced ==
    \A i \in Calls :
        (i = Len(ops) /\ ops[i].kind = "updateNote" /\ Resolved(i)) =>
            \A r \in RecordsOf(i) : TagRowsAre(r.path, r.tags)

\* C7 witness: the path had the rows x and y, the update gave #y and Y, and
\* the one row y is left.
C7_Witness ==
    /\ Len(ops) = 2
    /\ ops[1].arg = One(FileInfo1) /\ Resolved(1)
    /\ ops[2].arg = One(FileInfo2) /\ Resolved(2)
    /\ TagRowsOf(PathA) =
         {[note_path |-> PathA, tag_name |-> <<"y">>, tag_name_lower |-> <<"y">>]}

\* C8: after updateNote has resolved, each path it was given has exactly one
\* note row, with the title, lower-cased title, cleaned content, created and
\* last_modified of that call.
C8_LastWriteWins ==
    \A i \in Calls :
        (i = Len(ops) /\ ops[i].kind = "updateNote" /\ Resolved(i)) =>
            \A r \in RecordsOf(i) :
                /\ Cardinality(NoteRowsOf(r.path)) = 1
                /\ \A n \in NoteRowsOf(r.path) :
                      /\ n.title = r.title
                      /\ n.title_lower = toLowerCase(r.title)
                      /\ n.content_lower = cleanTextForSearch(r.content)
                      /\ n.created = r.created
                      /\ n.last_modified = r.last_modified

\* C8 witness: two updates of the same path, the row is the second one's.
C8_Witness ==
    /\ Len(ops) = 2
    /\ ops[1].arg = One(FileInfo2) /\ Resolved(1)
    /\ ops[2].arg = One(FileInfo1) /\ Resolved(2)
    /\ db.note = {[path |-> PathA, title |-> <<"A">>, title_lower |-> <<"a">>,
                   content_lower |-> <<"x">>, created |-> 1, last_modified |-> 2,
                   last_opened |-> NullInt]}

VersionIsCurrent == db.version = {[id |-> 1, version |-> CURRENT_VERSION]}

\* The first initialize() has settled, it was the only call, and no
\* statement failed or hung.
Initialized1 == Len(ops) = 1 /\ ~Pending(1) /\ failures = 0

\* C9: initialize on a store with the schema and a version below
\* MIN_MIGRATION_VERSION resolves with status reset and leaves the version at
\* CURRENT_VERSION.
C9_ResetBelowMinimum ==
    (db0 = StoreAt(MIN_MIGRATION_VERSION - 1) /\ Initialized1) =>
        /\ Resolved(1) /\ ops[1].result = "reset"
        /\ isInitialized
        /\ VersionIsCurrent

\* C10: initialize on a store at MIN_MIGRATION_VERSION applies the migration
\* of every version above it up to CURRENT_VERSION, resolves with status
\* upgraded and leaves the version at CURRENT_VERSION.
C10_UpgradeFromMinimum ==
    (db0 = StoreAt(MIN_MIGRATION_VERSION) /\ Initialized1) =>
        /\ Resolved(1) /\ ops[1].result = "upgraded"
        /\ isInitialized
        /\ {ops[1].migrated[n] : n \in 1..Len(ops[1].migrated)}
             = (MIN_MIGRATION_VERSION + 1)..CURRENT_VERSION
        /\ VersionIsCurrent

----------------------------------------------------------------------------
(* Properties of schema initialization.                                    *)

IsInit(i) == ops[i].kind = "initialize"

\* The versions above v, up to CURRENT_VERSION, the registry has no script for.
MissingAbove(v) == {w \in (v + 1)..CURRENT_VERSION : migrate(w) = <<>>}

C12_RegistryContiguous ==
    \A v \in MIN_MIGRATION_VERSION..(CURRENT_VERSION - 1) :
        db0 = StoreAt(v) => MissingAbove(v) = {}

\* The command that looks for the version table, or the one that reads the
\* version row, has failed: the process exited with an error or was killed.
ReadFailed(i) ==
    /\ ops[i].log # <<>>
    /\ Last(ops[i].log) \in {"exit", "timeout"}
    /\ \/ Len(ops[i].log) = 1
       \/ Len(ops[i].log) = 2 /\ "version" \in db0.tables

RecreatedAsCreated(i) ==
    /\ Resolved(i) /\ ops[i].result = "created"
    /\ isInitialized
    /\ SchemaTables \subseteq db.tables
    /\ VersionIsCurrent

\* C13: when the store has no version table (and no command fails), or when
\* a command that reads the version fails, the one initialize call settles
\* resolved with status created on a store that has the schema tables and
\* the version row at CURRENT_VERSION.
C13_UnreadableIsRecreated ==
    (/\ Len(ops) = 1 /\ IsInit(1) /\ ~Pending(1)
     /\ \/ "version" \notin db0.tables /\ failures = 0
        \/ ReadFailed(1))
    => RecreatedAsCreated(1)

\* The first half alone, the version table absent and no command failing,
\* is what the code does.
C13_AbsentOnly ==
    (Len(ops) = 1 /\ IsInit(1) /\ ~Pending(1) /\ "version" \notin db0.tables /\ failures = 0)
    => RecreatedAsCreated(1)

\* The statements of a script read only.
ReadOnly(script) ==
    \A n \in 1..Len(script) : script[n].k \in {"SelectVersionTable", "SelectVersion"}

\* C14: on a store at CURRENT_VERSION nothing initialize does changes the
\* store: every process it starts runs one of the two read queries, a call
\* that resolves has made exactly the two reads and returns status current
\* (or returns at once because the adapter is already initialized), and
\* without a failing command every call resolves.
C14_CurrentIsNoOp ==
    db0 = StoreAt(CURRENT_VERSION) =>
        /\ db = db0
        /\ \A i \in Calls :
              /\ IsInit(i)
              /\ ReadOnly(ops[i].proc.script)
              /\ Len(ops[i].log) <= 2
              /\ Resolved(i) =>
                    \/ ops[i].result = "current" /\ ops[i].log = <<"ok", "ok">>
                    \/ ops[i].result = "already" /\ ops[i].log = <<>>
              /\ (~Pending(i) /\ failures = 0) => Resolved(i)

\* C14 witness: the first call read "version" and then "20", and resolved
\* with status current on the unchanged store.
C14_Witness ==
    /\ db0 = StoreAt(CURRENT_VERSION)
    /\ Len(ops) >= 1 /\ Resolved(1)
    /\ ops[1].result = "current"
    /\ ops[1].log = <<"ok", "ok">>
    /\ ops[1].value = Decimal(CURRENT_VERSION)
    /\ isInitialized
    /\ db = db0

\* The versions an upgrade from v has to migrate through, in order.
StepsFrom(v) == [n \in 1..(CURRENT_VERSION - v) |-> v + n]

Upgrading(i) ==
    /\ IsInit(i)
    /\ ops[i].from \in MIN_MIGRATION_VERSION..(CURRENT_VERSION - 1)

\* What the upgrade has done so far is in order: the versions migrated are
\* an initial part of from+1, from+2, ..., each once; the process of a
\* migration runs the script of that one version; the version is written
\* only when all of them have been migrated.
UpgradeOrdered(i) ==
    /\ Len(ops[i].migrated) <= CURRENT_VERSION - ops[i].from
    /\ \A n \in 1..Len(ops[i].migrated) : ops[i].migrated[n] = ops[i].from + n
    /\ (ops[i].pc = "migrate" /\ Alive(ops[i])) =>
          /\ ops[i].v = ops[i].from + Len(ops[i].migrated) + 1
          /\ ops[i].proc.script = migrate(ops[i].v)
    /\ ops[i].pc = "updateVersion" => ops[i].migrated = StepsFrom(ops[i].from)

\* The upgrade has run to its end: every step in its own process, each
\* exited with code 0, then the write of the version.
UpgradeComplete(i) ==
    /\ Resolved(i) /\ ops[i].result = "upgraded"
    /\ ops[i].migrated = StepsFrom(ops[i].from)
    /\ ops[i].log = [n \in 1..(CURRENT_VERSION - ops[i].from + 3) |-> "ok"]
    /\ VersionIsCurrent

\* C15: an upgrade from a stored version v of the upgrade range executes the
\* steps v+1, ..., CURRENT_VERSION in ascending order, each once and each in
\* its own process, and writes the version only after the last one; with no
\* failing command and no other call it runs to its end.
C15_UpgradeStepsInOrder ==
    /\ \A i \in Calls : Upgrading(i) => UpgradeOrdered(i)
    /\ \A v \in MIN_MIGRATION_VERSION..(CURRENT_VERSION - 1) :
          (db0 = StoreAt(v) /\ db.version # db0.version) =>
              \E i \in Calls : IsInit(i) /\ ops[i].migrated = StepsFrom(v)
    /\ (Len(ops) = 1 /\ Upgrading(1) /\ ~Pending(1) /\ failures = 0) =>
          UpgradeComplete(1)

\* The order alone, without the demand that the upgrade runs to its end, is
\* what the code keeps.
C15_OrderOnly ==
    \A i \in Calls : Upgrading(i) => UpgradeOrdered(i)

\* C16: once an initialize call has resolved, whatever store the adapter was
\* constructed on, the version table holds the one row id = 1 with
\* version = CURRENT_VERSION.
C16_VersionSingleton ==
    (\E i \in Calls : IsInit(i) /\ Resolved(i)) => VersionIsCurrent

\* On every store that is not newer than CURRENT_VERSION the code keeps it.
C16_NotNewer ==
    (/\ db0 # StoreAt(CURRENT_VERSION + 1)
     /\ \E i \in Calls : IsInit(i) /\ Resolved(i))
    => VersionIsCurrent

\* C17: of all the initialize calls made on the adapter, at most one has
\* started the sequence of version check, create or migrate.
C17_InitializesOnce ==
    Cardinality({i \in Calls : IsInit(i) /\ Started(i)}) <= 1

----------------------------------------------------------------------------
(* Properties of the guard and of execute.                                 *)

Mutating(op) == op.kind \in {"updateNote", "deleteNote", "updateLastOpened"}

\* The call i starts a process in this step.
Spawns(i) ==
    /\ ops'[i].proc.state = "running"
    /\ i \in Calls => ops[i].proc.state = "none"

\* C18: a mutating call starts a process only when the adapter is
\* initialized, which it is only after an initialize call has resolved; a
\* mutating call made while it is not initialized is rejected in the call,
\* with no process started and the store untouched.
C18_NothingBeforeInitialize ==
    [][ /\ \A i \in 1..Len(ops') :
              (Mutating(ops'[i]) /\ Spawns(i)) =>
                  /\ isInitialized
                  /\ \E j \in Calls : IsInit(j) /\ Resolved(j)
        /\ (Len(ops') = Len(ops) + 1 /\ Mutating(ops'[Len(ops')]) /\ ~isInitialized) =>
              /\ ops'[Len(ops')].status = "rejected"
              /\ ops'[Len(ops')].result = "notInitialized"
              /\ ops'[Len(ops')].proc = NoProc
              /\ ops'[Len(ops')].log = <<>>
              /\ db' = db
      ]_vars

\* C18 witness: initialize was rejected, a mutating call made after that was
\* rejected without a process, and the store holds no note.
C18_Witness ==
    /\ Len(ops) = 2
    /\ IsInit(1) /\ Rejected(1)
    /\ Mutating(ops[2]) /\ ops[2].after = {1}
    /\ Rejected(2) /\ ops[2].result = "notInitialized"
    /\ ops[2].log = <<>> /\ ~Alive(ops[2])
    /\ ~isInitialized
    /\ db.note = {}

\* The process of call i closes in this step before its timer has expired.
ClosesInTime(i) ==
    /\ ops[i].proc.state = "running"
    /\ Len(ops'[i].log) = Len(ops[i].log) + 1

\* C19: a process is sent the kill signal only by the timer of its own
\* execute, while it has not closed, and that step rejects the call with the
\* timeout error and touches no other call; a process that closes first is
\* not timed out; a process that has closed is never killed.
C19_KillOnlyOnOwnTimeout ==
    [][ \A i \in Calls :
          /\ (ops'[i].proc.state = "killed" /\ ops[i].proc.state # "killed") =>
                /\ ops[i].proc.state = "hung"
                /\ Pending(i)
                /\ ops'[i].status = "rejected" /\ ops'[i].result = "timeout"
                /\ Last(ops'[i].log) = "timeout"
                /\ \A j \in Calls \ {i} : ops'[j] = ops[j]
          /\ (ops'[i].result = "timeout" /\ ops[i].result # "timeout") =>
                ops[i].proc.state = "hung" /\ ops'[i].proc.state = "killed"
          /\ ClosesInTime(i) =>
                /\ Last(ops'[i].log) \in {"ok", "exit"}
                /\ ops'[i].proc.state \in {"none", "running"}
          /\ ops[i].proc.state = "none" => ops'[i].proc.state \in {"none", "running"}
      ]_vars

\* C19 witness: one call was rejected by its timer and its process, killed,
\* has not closed yet; another call had its processes close in time and
\* resolved.
C19_Witness ==
    \E i, j \in Calls :
        /\ ops[i].proc.state = "killed"
        /\ Rejected(i) /\ ops[i].result = "timeout"
        /\ Resolved(j) /\ ops[j].log # <<>>
        /\ \A n \in 1..Len(ops[j].log) : ops[j].log[n] = "ok"

\* val is out without the white space at its two ends.
Trimmed(out, val) ==
    /\ \E a, b \in 0..Len(out) :
          /\ a + b <= Len(out)
          /\ val = SubSeq(out, a + 1, Len(out) - b)
          /\ \A k \in 1..a : IsSpace(out[k])
          /\ \A k \in (Len(out) - b + 1)..Len(out) : IsSpace(out[k])
    /\ val # <<>> => ~IsSpace(val[1]) /\ ~IsSpace(val[Len(val)])

----------------------------------------------------------------------------
(* Claims C21..C30.                                                        *)

\* C21: in structured mode the close handler of a process that exited with
\* code 0 resolves the promise with the parsed value when the output is
\* well-formed and rejects it with a parse failure when it is not, and a
\* process that exited with a nonzero code rejects it with the process
\* failure, which is a different error.
ClosesJson(i) ==
    /\ ops[i].kind = "getUserById"
    /\ ops[i].proc.state = "running"
    /\ ops'[i].proc.state = "none"

UserObject(u) ==
    JObj(<< << <<"i", "d">>, JNum(u.id) >>,
            << <<"n", "a", "m", "e">>, JStr(u.name) >> >>)

C21_StructuredResult ==
    [][\A i \in 1..Len(ops) : ClosesJson(i) =>
          LET p == ops[i].proc
              printed == {u \in db.users : p.out = Line(UserJson(u))}
          IN  IF p.err
              THEN ops'[i].status = "rejected" /\ ops'[i].result = "exit"
              ELSE IF printed = {}
              THEN ops'[i].status = "rejected" /\ ops'[i].result = "parse"
              ELSE /\ ops'[i].status = "resolved"
                   /\ \E u \in printed : ops'[i].value = JArr(<<UserObject(u)>>)]_vars

C21_Witness ==
    /\ Len(ops) = 2
    /\ ops[1].arg = 2 /\ Rejected(1) /\ ops[1].result = "parse"
    /\ ops[1].log = <<"ok">>
    /\ ops[2].arg = 1 /\ Resolved(2) /\ ops[2].log = <<"ok">>
    /\ ops[2].value.v[1].v[2][2] = JStr(<<"a">>)

\* The commands of the mutating call i, in the order the method awaits them.
ScriptsOf(i, op) ==
    CASE op.kind = "updateNote" ->
           << getUpdateNoteSql(op.arg), getUpdateTagsSql(op.arg),
              getUpdateFrontmatterSql(op.arg) >>
      [] op.kind = "deleteNote" -> << getDeleteNoteSql(op.arg) >>
      [] op.kind = "updateLastOpened" -> << getUpdateLastOpenedSql(op.arg, i) >>

\* The call i starts a new process in this step: in the call itself, or in
\* the close handler that has just logged the exit of its previous one.
StartsProcess(i) ==
    /\ ops'[i].proc = Spawn(ops'[i].proc.script)
    /\ i \in Calls => ops'[i].log # ops[i].log

\* C22: nothing is retried.  The k-th process a mutating call starts runs
\* the k-th command of the call and nothing else, it is started in the call
\* or when the previous process exited with code 0, and never after a
\* timeout or a nonzero exit; so a call starts at most one process per
\* command, a resolved call exactly one, and a rejected call none after the
\* failure.
C22_NoRetry ==
    [][\A i \in 1..Len(ops') : Mutating(ops'[i]) =>
          /\ StartsProcess(i) =>
                LET k == Len(ops'[i].log) + 1 IN
                /\ k <= Len(ScriptsOf(i, ops'[i]))
                /\ ops'[i].proc.script = ScriptsOf(i, ops'[i])[k]
                /\ ops'[i].status = "pending"
                /\ \A n \in 1..(k - 1) : ops'[i].log[n] = "ok"
                /\ i \in Calls => ops'[i].log = Append(ops[i].log, "ok")
          /\ Len(ops'[i].log) <= Len(ScriptsOf(i, ops'[i]))
          /\ ops'[i].status = "resolved" =>
                /\ Len(ops'[i].log) = Len(ScriptsOf(i, ops'[i]))
                /\ ~Alive(ops'[i])
          /\ (i \in Calls /\ Rejected(i)) =>
                /\ ops'[i].log = ops[i].log
                /\ ops'[i].proc.state \in {"killed", "none"}
                /\ ops'[i].proc.state = "killed" => ops[i].proc.state = "killed"]_vars

C22_Witness ==
    /\ Len(ops) = 2
    /\ ops[1].kind = "updateNote" /\ Rejected(1) /\ ~Alive(ops[1])
    /\ ops[1].log \in {<<"ok", "exit">>, <<"ok", "timeout">>}
    /\ ops[2].kind = "updateNote" /\ Resolved(2)
    /\ ops[2].log = <<"ok", "ok", "ok">>

\* The records of a batch and the relation rows they carry.
BatchOf(arg) == IF arg.array THEN arg.items ELSE << arg.item >>
RelationOf(r, kind) == IF kind = "tags" THEN r.tags ELSE r.frontmatter
RECURSIVE CountRows(_, _)
CountRows(batch, kind) ==
    IF batch = <<>> THEN 0
    ELSE Len(RelationOf(Head(batch), kind)) + CountRows(Tail(batch), kind)

\* The script replaces the relation `kind` of the batch in one go.
ReplacesRelation(script, batch, kind) ==
    LET del == IF kind = "tags" THEN "DeleteTags" ELSE "DeleteFrontmatter"
        ins == IF kind = "tags" THEN "InsertTags" ELSE "InsertFrontmatter"
        n   == CountRows(batch, kind)
    IN  /\ Len(script) = (IF n = 0 THEN 1 ELSE 2)
        /\ script[1].k = del
        /\ Len(script[1].paths) = Len(batch)
        /\ \A b \in 1..Len(batch) : DecodeLiteral(script[1].paths[b]) = batch[b].path
        /\ n > 0 =>
              /\ script[2].k = ins
              /\ Len(script[2].rows) = n
              /\ \A b \in 1..Len(batch) :
                    \A t \in 1..Len(RelationOf(batch[b], kind)) :
                      \E row \in {script[2].rows[x] : x \in 1..n} :
                        /\ DecodeLiteral(row.note_path) = batch[b].path
                        /\ IF kind = "tags"
                           THEN DecodeLiteral(row.tag_name)
                                  = StripMarker(batch[b].tags[t])
                           ELSE DecodeLiteral(row.frontmatter_name)
                                  = batch[b].frontmatter[t][1]

RECURSIVE QuotesDoubled(_)
QuotesDoubled(lit) ==
    IF lit = <<>> THEN TRUE
    ELSE IF Head(lit) = Quote
         THEN /\ Len(lit) >= 2 /\ lit[2] = Quote
              /\ QuotesDoubled(SubSeq(lit, 3, Len(lit)))
         ELSE QuotesDoubled(Tail(lit))

RowsOf(stmt) == {stmt.rows[n] : n \in 1..Len(stmt.rows)}

\* The text literals of a statement.
LiteralsOf(stmt) ==
    CASE stmt.k = "UpsertNote" ->
           UNION {{r.path, r.title, r.title_lower, r.content_lower} : r \in RowsOf(stmt)}
      [] stmt.k \in {"DeleteTags", "DeleteFrontmatter"} ->
           {stmt.paths[n] : n \in 1..Len(stmt.paths)}
      [] stmt.k = "InsertTags" ->
           UNION {{r.note_path, r.tag_name, r.tag_name_lower} : r \in RowsOf(stmt)}
      [] stmt.k = "InsertFrontmatter" ->
           UNION {{r.note_path, r.frontmatter_name, r.frontmatter_value,
                   r.frontmatter_value_lower} : r \in RowsOf(stmt)}

\* The statements of a script and the number of rows or paths of each.
ShapeOf(script) ==
    [n \in 1..Len(script) |->
        <<script[n].k,
          IF script[n].k \in {"DeleteTags", "DeleteFrontmatter"}
          THEN Len(script[n].paths) ELSE Len(script[n].rows)>>]

ReferenceShapes ==
    LET ref == ScriptsOf(1, [kind |-> "updateNote", arg |-> One(TextRecord(<<"A">>))])
    IN  {ShapeOf(ref[n]) : n \in 1..Len(ref)}

\* The store holds the text of record r as it was given.
StoredAsGiven(r) ==
    /\ {n \in db.note : n.path = r.path}
         = {[path |-> r.path, title |-> r.title,
             title_lower |-> toLowerCase(r.title),
             content_lower |-> cleanTextForSearch(r.content),
             created |-> r.created, last_modified |-> r.last_modified,
             last_opened |-> NullInt]}
    /\ {t \in db.note_tag : t.note_path = r.path}
         = {[note_path |-> r.path, tag_name |-> StripMarker(r.tags[n]),
             tag_name_lower |-> toLowerCase(StripMarker(r.tags[n]))]
              : n \in 1..Len(r.tags)}
    /\ {f \in DOMAIN db.note_frontmatter : f.note_path = r.path}
         = {[note_path |-> r.path, frontmatter_name |-> r.frontmatter[n][1],
             frontmatter_name_lower |-> NULL,
             frontmatter_value |-> JSONStringify(r.frontmatter[n][2]),
             frontmatter_value_lower |->
                 toLowerCase(JSONStringify(r.frontmatter[n][2]))]
              : n \in 1..Len(r.frontmatter)}

\* C24: whatever quotes the path, title, content, tag name, frontmatter key
\* and frontmatter value contain, every quote of every literal of every
\* script of updateNote is doubled (or the input's quotes are gone), the
\* scripts have the statements and row counts they have for text without
\* quotes, and when the call has resolved the store holds each value as it
\* was given (the content as cleaned for search).
C24_QuotesCannotEndLiteral ==
    \A i \in Calls : ops[i].kind = "updateNote" =>
        /\ ops[i].proc.state = "running" =>
              /\ \A n \in 1..Len(ops[i].proc.script) :
                    \A lit \in LiteralsOf(ops[i].proc.script[n]) : QuotesDoubled(lit)
              /\ ShapeOf(ops[i].proc.script) \in ReferenceShapes
        /\ (Resolved(i) /\ i = Len(ops)) => StoredAsGiven(ops[i].arg.item)

C24_Witness ==
    /\ Len(ops) = 2
    /\ Resolved(1) /\ ops[1].arg.item.path = <<Quote>>
    /\ Resolved(2) /\ ops[2].arg.item.path = <<"A", Quote>>
    /\ \E n \in db.note : n.path = <<Quote>> /\ n.title = <<Quote>>
    /\ \E t \in db.note_tag : t.tag_name = <<"A", Quote>>

\* Between the stores d and e nothing differs but last_opened of the note
\* rows with path p.
OnlyLastOpenedOf(p, d, e) ==
    /\ [e EXCEPT !.note = {}] = [d EXCEPT !.note = {}]
    /\ Cardinality(e.note) = Cardinality(d.note)
    /\ \A n \in d.note :
          IF n.path = p
          THEN \E t \in {n.last_opened} \cup 1..MaxOps :
                  [n EXCEPT !.last_opened = t] \in e.note
          ELSE n \in e.note

\* C25: while an awaited updateLastOpened(p) is at work, a step changes
\* nothing in the store except last_opened of the note row with path p: no
\* other column of it, no other note row, no tag or frontmatter row, no
\* table; and when no note row has path p the store does not change.
C25_OnlyLastOpened ==
    [][\A i \in Calls :
          (ops[i].kind = "updateLastOpened" /\ (Pending(i) \/ Alive(ops[i]))) =>
              /\ OnlyLastOpenedOf(ops[i].arg, db, db')
              /\ (\A n \in db.note : n.path # ops[i].arg) => db' = db]_vars

C25_Witness ==
    /\ Len(ops) = 2
    /\ ops[2].kind = "updateLastOpened" /\ ops[2].arg = PathA /\ Resolved(2)
    /\ \E n \in db.note : n.path = PathA /\ n.last_opened = 2
    /\ \E n \in db.note : n.path = PathB /\ n.last_opened = NullInt
    /\ db.note_tag # {}

\* C26: once an updateNote has resolved, every note_frontmatter row has
\* frontmatter_name_lower equal to the lower case of its frontmatter_name,
\* and no two rows of one note_path have the same frontmatter_name_lower.
C26_FrontmatterNameLower ==
    (\E i \in Calls : ops[i].kind = "updateNote" /\ Resolved(i)) =>
        \A f \in DOMAIN db.note_frontmatter :
            /\ f.frontmatter_name_lower = toLowerCase(f.frontmatter_name)
            /\ db.note_frontmatter[f] = 1
            /\ \A g \in DOMAIN db.note_frontmatter :
                  (g # f /\ g.note_path = f.note_path) =>
                      g.frontmatter_name_lower # f.frontmatter_name_lower

\* The versions whose migration script the initialize call i has run to an
\* exit with code 0, and those whose script it has handed to a process.
AppliedBy(i) == {ops[i].migrated[n] : n \in 1..Len(ops[i].migrated)}
ExecutedBy(i) == AppliedBy(i) \cup ({ops[i].v} \ {0})

\* C27: over the starts made one after the other on the same store, a
\* migration step that an earlier start has applied is not executed again
\* by a later start, whether or not the earlier start went on to fail.
C27_MigrationOnce ==
    \A i \in Calls : \A j \in Calls :
        (IsInit(i) /\ IsInit(j) /\ i \in ops[j].after) =>
            AppliedBy(i) \cap ExecutedBy(j) = {}

C29_NothingSurvivesReset ==
    \A i \in Calls :
        (IsInit(i) /\ Resolved(i) /\ ops[i].result \in {"created", "reset"}) =>
            /\ db.tables = SchemaTables \cup {"version"}
            /\ db.note = {} /\ db.note_tag = {}
            /\ db.note_frontmatter = EmptyBag
            /\ db.users = {}

\* The call i is suspended in its n-th execute: the promise of that execute
\* has not settled and its process has not closed.
Suspended(i, n) ==
    /\ i \in Calls
    /\ Pending(i)
    /\ ops[i].proc.state \in {"running", "hung"}
    /\ Len(ops[i].log) = n - 1

\* C30: every execute settles: a call suspended in an execute is resumed,
\* by the close of the process or by the timer, even when the process never
\* exits.
C30_EveryExecuteSettles ==
    \A i \in 1..MaxOps : \A n \in 1..3 :
        Suspended(i, n) ~> (i \in Calls /\ Len(ops[i].log) >= n)

----------------------------------------------------------------------------
(* Claims C31..C37.                                                        *)

C32_UpdateKeepsLastOpened ==
    \A i \in Calls :
        (/\ ops[i].kind = "updateLastOpened" /\ Resolved(i)
         /\ \A j \in 1..(i - 1) : ops[j].kind # "deleteNote"
         /\ \A j \in (i + 1)..Len(ops) :
               /\ ops[j].kind = "updateNote"
               /\ \A r \in RecordsOf(j) : r.path = ops[i].arg) =>
            /\ \E n \in db.note : n.path = ops[i].arg
            /\ \A n \in db.note : n.path = ops[i].arg => n.last_opened = i

\* The note, tag and frontmatter rows of the paths in P.
RowsAbout(d, P) ==
    [note |-> {n \in d.note : n.path \in P},
     note_tag |-> {t \in d.note_tag : t.note_path \in P},
     note_frontmatter |->
         [f \in {g \in DOMAIN d.note_frontmatter : g.note_path \in P}
            |-> d.note_frontmatter[f]]]

\* C33: updateNote is all or nothing: when the first call made on a store
\* is an updateNote and it is rejected, the note, tag and frontmatter rows
\* of its paths are the ones the store had before the call.
C33_UpdateAllOrNothing ==
    (/\ Len(ops) = 1
     /\ ops[1].kind = "updateNote"
     /\ Rejected(1)) =>
        LET P == {r.path : r \in RecordsOf(1)} IN
        RowsAbout(db, P) = RowsAbout(db0, P)

\* The process of call i executes a statement of kind k in this step.
Executes(i, k) ==
    /\ ops[i].proc.state = "running"
    /\ ops'[i].proc.state = "running"
    /\ ops'[i].proc.at = ops[i].proc.at + 1
    /\ ops[i].proc.script[ops[i].proc.at].k = k

\* C34: within one awaited updateNote the note upsert comes first: when
\* its process inserts tag or frontmatter rows, the process of the upsert
\* has exited with code 0 and a note row exists for every path of the call;
\* and the upsert runs while the call has written no relation row yet, so
\* its replacement of the note row cannot remove rows of the same call.
C34_UpsertBeforeRelations ==
    [][\A i \in Calls : ops[i].kind = "updateNote" =>
          /\ (Executes(i, "InsertTags") \/ Executes(i, "InsertFrontmatter")) =>
                /\ Len(ops[i].log) >= 1 /\ ops[i].log[1] = "ok"
                /\ \A r \in RecordsOf(i) : \E n \in db.note : n.path = r.path
          /\ Executes(i, "UpsertNote") =>
                /\ ops[i].log = <<>>
                /\ ops[i].proc.at = 1
          /\ Executes(i, "DeleteTags") => ops[i].log = <<"ok">>
          /\ Executes(i, "DeleteFrontmatter") => ops[i].log = <<"ok", "ok">>
      ]_vars

C34_Witness ==
    \E i \in Calls :
        /\ ops[i].kind = "updateNote" /\ ops[i].arg.array
        /\ ops[i].log = <<"ok", "ok">>
        /\ ops[i].proc.state = "running" /\ ops[i].proc.at = 3
        /\ ~ops[i].proc.err
        /\ \E f \in DOMAIN db.note_frontmatter : f.note_path = PathB
        /\ \E n \in db.note : n.path = PathB /\ n.last_modified = 5

\* C35: when the last event for a path was a delete that followed a modify,
\* create or metadata change of the path, then once every handler has
\* finished and every process has closed the store has no note row for it.
C35_DeleteAfterModifyWins ==
    \A i \in Calls : \A j \in Calls :
        (/\ i < j
         /\ ops[i].kind = "updateNote"
         /\ ops[j].kind = "deleteNote"
         /\ \A r \in RecordsOf(i) : r.path = ops[j].arg
         /\ j = Len(ops)
         /\ Resolved(j)
         /\ \A k \in Calls : ~Pending(k) /\ ~Alive(ops[k])) =>
            \A n \in db.note : n.path # ops[j].arg

\* C36: within one plugin load at most one full sync is started and the
\* event handlers are registered at most once, however often 'resolved' fires.
C36_SyncAndRegisterOnce ==
    /\ Cardinality(FullSyncs) <= 1
    /\ Cardinality(Registrations) <= 1

\* Every record of the call's batch has an empty list for the relation.
EmptyRelation(i, kind) ==
    \A b \in 1..Len(BatchOf(ops[i].arg)) :
        RelationOf(BatchOf(ops[i].arg)[b], kind) = << >>
BatchPaths(i) ==
    {BatchOf(ops[i].arg)[b].path : b \in 1..Len(BatchOf(ops[i].arg))}

\* C37: when every record of a batch has an empty tag list (resp. empty
\* frontmatter), the script that replaces the relation is the DELETE alone,
\* and once it has run the paths of the batch have no tag (resp.
\* frontmatter) row.
C37_EmptyRelationDeleteOnly ==
    \A i \in Calls : ops[i].kind = "updateNote" =>
        /\ (EmptyRelation(i, "tags") /\ ops[i].proc.state = "running"
               /\ Len(ops[i].log) = 1) =>
              /\ Len(ops[i].proc.script) = 1
              /\ ops[i].proc.script[1].k = "DeleteTags"
        /\ (EmptyRelation(i, "tags") /\ i = Len(ops)
               /\ Len(ops[i].log) >= 2 /\ ops[i].log[2] = "ok") =>
              \A p \in BatchPaths(i) : TagRowsOf(p) = {}
        /\ (EmptyRelation(i, "frontmatter") /\ ops[i].proc.state = "running"
               /\ Len(ops[i].log) = 2) =>
              /\ Len(ops[i].proc.script) = 1
              /\ ops[i].proc.script[1].k = "DeleteFrontmatter"
        /\ (EmptyRelation(i, "frontmatter") /\ i = Len(ops)
               /\ Len(ops[i].log) >= 3 /\ ops[i].log[3] = "ok") =>
              \A p \in BatchPaths(i) : FrontmatterRowsOf(p) = {}

C37_Witness ==
    \E i \in Calls :
        /\ ops[i].kind = "updateNote" /\ i = Len(ops) /\ Resolved(i)
        /\ EmptyRelation(i, "tags") /\ EmptyRelation(i, "frontmatter")
        /\ Cardinality(BatchPaths(i)) = 2
        /\ \A p \in BatchPaths(i) :
              /\ {r \in db0.note_tag : r.note_path = p} # {}
              /\ {r \in DOMAIN db0.note_frontmatter : r.note_path = p} # {}
              /\ TagRowsOf(p) = {} /\ FrontmatterRowsOf(p) = {}
              /\ NoteRowsOf(p) # {}

====
